---- MODULE Spec2Model ----
(***************************************************************************)
(* State-machine model of src/main.py: the FastAPI handler handle_task,    *)
(* the generator call_llm_generate_code, the reconciler                    *)
(* create_or_update_repo (with the remote repository host it writes to),   *)
(* the notifier notify_evaluation and the in-memory store task_repos.      *)
(***************************************************************************)
EXTENDS Integers, Sequences, FiniteSets, TLC

\* ------------------------------------------------------------------ bounds
\* Requests accepted over a run, additional rounds in one request ("round2"
\* list), and the last value of the one-second clock behind safe_repo_name.
MaxRequests == 2
MaxExtraRounds == 1
MaxTime == 1

\* [:50] in safe_repo_name
RepoNameCap == 50

\* ------------------------------------------------------------------ values
Handlers == {"h1", "h2"}
NoHandler == "none"
None == "None"
EmptyMap == [p \in {} |-> <<>>]

\* SECRET_KEY, and the login of the account behind GITHUB_TOKEN
SECRET_KEY == "testsecret"
Login == "acct"

\* A line of text: whether it starts with a space, and its stripped text as a
\* sequence of tokens (so that "ends with .html" is computed, not assumed).
Line(ind, txt) == [ind |-> ind, txt |-> txt]
Text(w) == Line(FALSE, <<w>>)
Blank == Line(FALSE, <<>>)
Extensions == {".html", ".js", ".css"}

IndexHtml == <<"index", ".html">>
AppJs == <<"app", ".js">>
ReadmeMd == <<"README", ".md">>

\* ----------------------------------------------------------- pure helpers
\* dict.update / files[k] = v over a whole mapping: g's entries win
Overlay(f, g) ==
    [p \in (DOMAIN f) \cup (DOMAIN g) |-> IF p \in DOMAIN g THEN g[p] ELSE f[p]]

\* d.get(k, default)
Get(d, k, default) == IF k \in DOMAIN d THEN d[k] ELSE default

Last(s) == s[Len(s)]

RECURSIVE DropLeadingBlank(_)
DropLeadingBlank(ls) ==
    IF ls = <<>> THEN <<>>
    ELSE IF Head(ls).txt = <<>> THEN DropLeadingBlank(Tail(ls))
    ELSE ls

RECURSIVE DropTrailingBlank(_)
DropTrailingBlank(ls) ==
    IF ls = <<>> THEN <<>>
    ELSE IF Last(ls).txt = <<>> THEN DropTrailingBlank(SubSeq(ls, 1, Len(ls) - 1))
    ELSE ls

\* str.strip() of the lines joined by "\n": blank lines at both ends go, and
\* so does the indentation of the first line left
Strip(ls) ==
    LET t == DropTrailingBlank(DropLeadingBlank(ls))
    IN  IF t = <<>> THEN <<>>
        ELSE <<Line(FALSE, Head(t).txt)>> \o Tail(t)

\* line.strip().endswith((".html", ".js", ".css")) and not line.startswith(" ")
IsFilenameLine(l) ==
    /\ l.txt # <<>>
    /\ Last(l.txt) \in Extensions
    /\ ~l.ind

\* the loop of lines 75-82: files, current_file and buffer after the lines
\* from position i on (current_file = <<>> stands for None)
RECURSIVE ScanLines(_, _, _, _, _)
ScanLines(ls, i, files, current_file, buffer) ==
    IF i > Len(ls) THEN [files |-> files, current_file |-> current_file, buffer |-> buffer]
    ELSE IF IsFilenameLine(ls[i])
         THEN ScanLines(ls, i + 1,
                        IF current_file # <<>>
                        THEN Overlay(files, [p \in {current_file} |-> Strip(buffer)])
                        ELSE files,
                        ls[i].txt, <<>>)
         ELSE ScanLines(ls, i + 1, files, current_file, Append(buffer, ls[i]))

\* the fallback of line 88: the response inside fixed markup
Boilerplate(code_text) ==
    <<Text("<!DOCTYPE html>"), Text("<html><body><pre>")>> \o code_text
        \o <<Text("</pre></body></html>")>>

\* lines 69-88: the File Set parsed from the model's response
ParseResponse(content) ==
    LET code_text == Strip(content)
        s == ScanLines(code_text, 1, EmptyMap, <<>>, <<>>)
        files == IF s.current_file # <<>>
                 THEN Overlay(s.files, [p \in {s.current_file} |-> Strip(s.buffer)])
                 ELSE s.files
    IN  IF DOMAIN files = {} THEN [p \in {IndexHtml} |-> Boilerplate(code_text)]
        ELSE files

\* the merge of lines 90-93 with the precedence reversed: generated files win
GeneratedWins(files, attachments) == Overlay(attachments, files)

\* lines 90-93: attachments are written into files last
MergeAttachments(files, attachments) == Overlay(files, attachments)

\* lines 69-95: what call_llm_generate_code returns for a response
GenerateFiles(content, attachments) ==
    MergeAttachments(ParseResponse(content), attachments)

\* c if c.isalnum() else "-"
AlNum == {"t", "a", "s", "k", "b", "c", "f", "0", "1", "2", "3", "9"}
SafeChar(c) == IF c \in AlNum THEN c ELSE "-"

\* lines 98-101: safe_repo_name at clock value ts
safe_repo_name(task_id, ts) ==
    LET mapped == [k \in 1..Len(task_id) |-> SafeChar(task_id[k])]
        capped == SubSeq(mapped, 1, IF Len(mapped) < RepoNameCap THEN Len(mapped) ELSE RepoNameCap)
        name == IF capped = <<>> THEN <<"r", "e", "p", "o">> ELSE capped
    IN  <<name, ts>>

\* repo.html_url of the repository called name
HtmlUrl(name) == <<"https://github.com", Login, name>>

\* line 122: repo_url.rstrip("/").split("/")[-1]
RepoNameOfUrl(repo_url) == Last(repo_url)

\* line 148
PagesUrl(name) == <<"https://", Login, ".github.io", name, "">>

\* ------------------------------------------------------------------ inputs
Task1 == <<"t", "1">>
\* f"task-{uuid.uuid4().hex[:6]}" and f"user-{...}": the random identifiers
GeneratedTasks == {<<"t", "a", "s", "k", "-", "0", "a", "3", "f", "9", "c">>}
GeneratedEmails == {"user-0a3f9c"}

AttachmentContent == <<Text("attached")>>
AttachmentSets ==
    {EmptyMap, [p \in {IndexHtml} |-> AttachmentContent]}

Brief == [brief |-> "brief", checks |-> <<>>]
ExtraRoundLists == UNION {[1..n -> {Brief}] : n \in 0..MaxExtraRounds}

\* the JSON bodies a caller may POST (absent fields: None, <<>>, EmptyMap):
\* every combination of the fields for one named identity, and the body that
\* names neither email nor task
Requests ==
    [secret : {SECRET_KEY, "wrong"},
     email : {"a@x.com"},
     task : {Task1},
     round : {1, 2},
     evaluation_url : {None, "http://callback"},
     attachments : AttachmentSets,
     round2 : ExtraRoundLists]
    \cup {[secret |-> SECRET_KEY, email |-> None, task |-> <<>>, round |-> 1,
           evaluation_url |-> None, attachments |-> EmptyMap, round2 |-> <<>>]}

\* the texts the language model may answer with
LLMResponses ==
    {<<Line(FALSE, IndexHtml), Text("page v1")>>,
     <<Line(FALSE, AppJs), Text("script")>>,
     <<Text("no file name")>>}

LLMOutcomes ==
    {[ok |-> FALSE, content |-> <<>>]} \cup {[ok |-> TRUE, content |-> r] : r \in LLMResponses}

\* -------------------------------------------------------------------- state
VARIABLES
    task_repos,   \* line 20: (email, task) -> Repository Record
    remote,       \* the repository host: repo name -> [files, commits]
    now,          \* the last value datetime.utcnow() returned, in seconds
    running,      \* the handler the event loop is executing, or NoHandler
    pc,           \* handler -> position in handle_task / create_or_update_repo
    data,         \* handler -> the request body
    loc,          \* handler -> local variables
    response,     \* handler -> the response about to be sent
    calls,        \* handler -> outbound calls made for the request, in order
    hist,         \* handler -> snapshots taken along the request (history)
    round1Done,   \* identities whose round_num = 1 reconcile completed (history)
    lastOk,       \* identity -> the last completed direct reconcile call (history)
    nreq          \* requests accepted so far

vars == <<task_repos, remote, now, running, pc, data, loc, response, calls, hist,
          round1Done, lastOk, nreq>>

NoData ==
    [secret |-> None, email |-> None, task |-> <<>>, round |-> 0, evaluation_url |-> None,
     attachments |-> EmptyMap, round2 |-> <<>>]
NoExc == [status |-> 0, detail |-> None]
NoRet == [repo_url |-> <<>>, pages_url |-> <<>>, commit_sha |-> <<>>]
NoLoc ==
    [email |-> None, task |-> <<>>, rounds |-> 0, i |-> 0, existing_files |-> EmptyMap,
     results |-> <<>>, code_files |-> EmptyMap, round_num |-> 0, repo |-> <<>>,
     stored_files |-> EmptyMap, todo |-> {}, pages |-> None, exc |-> NoExc, ret |-> NoRet]
NoResponse == [status |-> 0, detail |-> None, results |-> <<>>]
NoSnapshot == [has |-> FALSE, files |-> EmptyMap, repo_url |-> <<>>]
NoCall == [round_num |-> 0, code_files |-> EmptyMap, files |-> EmptyMap]
NoHist ==
    [startRepos |-> EmptyMap, startRemote |-> EmptyMap, goodRepos |-> EmptyMap,
     goodRemote |-> EmptyMap,
     genArgs |-> <<>>, parsed |-> EmptyMap, afterFiles |-> <<>>, preFiles |-> NoSnapshot,
     prevOk |-> NoCall, notify |-> None, content |-> <<>>]

Key(h) == <<loc[h].email, loc[h].task>>

\* what datetime.utcnow() may return next: the clock never goes back
ClockReadings == now..MaxTime

Init ==
    /\ task_repos = EmptyMap
    /\ remote = EmptyMap
    /\ now = 0
    /\ running = NoHandler
    /\ pc = [h \in Handlers |-> "idle"]
    /\ data = [h \in Handlers |-> NoData]
    /\ loc = [h \in Handlers |-> NoLoc]
    /\ response = [h \in Handlers |-> NoResponse]
    /\ calls = [h \in Handlers |-> <<>>]
    /\ hist = [h \in Handlers |-> NoHist]
    /\ round1Done = {}
    /\ lastOk = EmptyMap
    /\ nreq = 0

\* ------------------------------------------------------- shared fragments
Log(h, op) == calls' = [calls EXCEPT ![h] = Append(@, [op |-> op, rn |-> loc[h].i + 1])]

\* an error response that still carries the results of the completed rounds
PartialResponse(results, status, detail) ==
    [status |-> status, detail |-> detail, results |-> results]

\* raise HTTPException(status, detail) out of handle_task: the body of the
\* response is the detail alone, the results gathered so far are dropped
ErrorResponse(results, status, detail) ==
    [status |-> status, detail |-> detail, results |-> <<>>]

\* line 239
OkResponse(results) == [status |-> 200, detail |-> "Task processed via LLM", results |-> results]

\* an exception leaving create_or_update_repo after undoing the identity's
\* record
RaiseWithRollback(h, status, detail) ==
    /\ pc' = [pc EXCEPT ![h] = "rec_raised"]
    /\ loc' = [loc EXCEPT ![h].exc = [status |-> status, detail |-> detail]]
    /\ task_repos' = [k \in (DOMAIN task_repos) \ {<<loc[h].email, loc[h].task>>} |-> task_repos[k]]
    /\ UNCHANGED <<round1Done, lastOk, hist>>

\* an exception leaving create_or_update_repo: task_repos is not touched
Raise(h, status, detail) ==
    /\ pc' = [pc EXCEPT ![h] = "rec_raised"]
    /\ loc' = [loc EXCEPT ![h].exc = [status |-> status, detail |-> detail]]
    /\ UNCHANGED <<task_repos, round1Done, lastOk, hist>>

\* the end of one pass of the loop of line 201: the next round, or line 239
NextRound(h, l) ==
    IF l.i + 1 < l.rounds
    THEN /\ loc' = [loc EXCEPT ![h] = [l EXCEPT !.i = l.i + 1]]
         /\ pc' = [pc EXCEPT ![h] = "gen"]
         /\ UNCHANGED response
    ELSE /\ loc' = [loc EXCEPT ![h] = l]
         /\ pc' = [pc EXCEPT ![h] = "done"]
         /\ response' = [response EXCEPT ![h] = OkResponse(l.results)]

\* ---------------------------------------------------------- handle_task
\* the handler slots are interchangeable: a request takes "h1" when it is free
FirstSlot(h) == h = "h1"

\* a request arrives; its body is read at "await request.json()" (line 180),
\* the only point where the event loop can switch handlers
Accept(h) ==
    /\ pc[h] = "idle"
    /\ \A g \in Handlers : FirstSlot(g) /\ g # h => pc[g] # "idle"
    /\ nreq < MaxRequests
    /\ nreq' = nreq + 1
    /\ pc' = [pc EXCEPT ![h] = "await_json"]
    /\ UNCHANGED <<task_repos, remote, now, running, data, loc, response, calls, hist,
                   round1Done, lastOk>>

\* the check of line 185 left out
AnySecretAccepted(d) == TRUE

\* line 185
SecretAccepted(d) == d.secret = SECRET_KEY

\* every blocking call hands the event loop over, as an awaited call would
LoopAlwaysFree == TRUE

\* handle_task is a coroutine whose only await is line 180: every later call
\* (LLM, repository host, callback) blocks the event loop, so the handler that
\* has the loop keeps it until it returns
LoopFree == running = NoHandler

\* lines 180-199: the body is parsed, the secret checked, the locals set
Start(h) ==
    /\ pc[h] = "await_json"
    /\ LoopFree
    /\ running' = h
    /\ \E d \in Requests :
        /\ data' = [data EXCEPT ![h] = d]
        /\ IF ~SecretAccepted(d)
           THEN /\ pc' = [pc EXCEPT ![h] = "done"]
                /\ response' = [response EXCEPT ![h] =
                                    ErrorResponse(<<>>, 403, "Invalid secret key")]
                /\ hist' = [hist EXCEPT ![h] =
                                [NoHist EXCEPT !.startRepos = task_repos,
                                               !.startRemote = remote,
                                               !.goodRepos = task_repos,
                                               !.goodRemote = remote]]
                /\ UNCHANGED loc
           ELSE \E e \in (IF d.email = None THEN GeneratedEmails ELSE {d.email}),
                   t \in (IF d.task = <<>> THEN GeneratedTasks ELSE {d.task}) :
                /\ loc' = [loc EXCEPT ![h] =
                            [NoLoc EXCEPT !.email = e,
                                          !.task = t,
                                          !.rounds = 1 + Len(d.round2),
                                          !.existing_files =
                                              Get(task_repos, <<e, t>>, [files |-> EmptyMap]).files]]
                /\ hist' = [hist EXCEPT ![h] =
                                [NoHist EXCEPT !.startRepos = task_repos,
                                               !.startRemote = remote,
                                               !.goodRepos = task_repos,
                                               !.goodRemote = remote]]
                /\ pc' = [pc EXCEPT ![h] = "gen"]
                /\ UNCHANGED response
    /\ UNCHANGED <<task_repos, remote, now, calls, round1Done, lastOk, nreq>>

\* lines 204-212: the generator is called with the accumulated File Set
Generate(h) ==
    /\ pc[h] = "gen"
    /\ Log(h, "generate")
    /\ \E o \in LLMOutcomes :
        /\ hist' = [hist EXCEPT ![h].genArgs = Append(@, loc[h].existing_files),
                                ![h].parsed = IF o.ok THEN ParseResponse(o.content) ELSE EmptyMap,
                                ![h].notify = None]
        /\ IF o.ok
           THEN /\ loc' = [loc EXCEPT
                            ![h].code_files = GenerateFiles(o.content, data[h].attachments),
                            ![h].round_num = loc[h].i + 1]
                /\ pc' = [pc EXCEPT ![h] = "rec"]
                /\ UNCHANGED response
           ELSE /\ pc' = [pc EXCEPT ![h] = "done"]
                /\ response' = [response EXCEPT ![h] =
                                ErrorResponse(loc[h].results, 500, "LLM generation failed")]
                /\ UNCHANGED loc
    /\ UNCHANGED <<task_repos, remote, now, running, data, round1Done, lastOk, nreq>>

\* lines 216-217: whatever create_or_update_repo raised, the HTTPException of
\* line 120 included, becomes a 500
CatchReconcile(h) ==
    /\ pc[h] = "rec_raised"
    /\ data[h] # NoData
    /\ pc' = [pc EXCEPT ![h] = "done"]
    /\ response' = [response EXCEPT ![h] =
                        ErrorResponse(loc[h].results, 500, "GitHub operation failed")]
    /\ UNCHANGED <<task_repos, remote, now, running, data, loc, calls, hist, round1Done,
                   lastOk, nreq>>

\* line 219 left out: the File Set read at line 198 is kept
KeepExisting(h) == loc[h].existing_files

\* line 219: the File Set the next round's generator will be given
RefreshExisting(h) == Get(task_repos, Key(h), [files |-> EmptyMap]).files

\* the notifier called for every request
AlwaysNotify(d) == TRUE

\* line 227: if evaluation_url
WantsNotify(d) == d.evaluation_url # None

\* lines 219-225, then the notifier or the next round
AfterReconcile(h) ==
    /\ pc[h] = "reconciled"
    /\ data[h] # NoData
    /\ LET l == [loc[h] EXCEPT
                    !.existing_files = RefreshExisting(h),
                    !.pages = None,
                    !.results = Append(@, [round |-> loc[h].i + 1,
                                           repo_url |-> loc[h].ret.repo_url,
                                           pages_url |-> loc[h].ret.pages_url,
                                           commit_sha |-> loc[h].ret.commit_sha])]
       IN  IF WantsNotify(data[h])
           THEN /\ loc' = [loc EXCEPT ![h] = l]
                /\ pc' = [pc EXCEPT ![h] = "notify"]
                /\ UNCHANGED response
           ELSE NextRound(h, l)
    /\ hist' = [hist EXCEPT ![h].goodRepos = task_repos,
                            ![h].goodRemote = remote]
    /\ UNCHANGED <<task_repos, remote, now, running, data, calls, round1Done, lastOk, nreq>>

\* the POST made outside any try: a network error leaves the function
NotifyUnguarded(outcome) == [raised |-> outcome = "exception", ok |-> outcome = "200"]

\* lines 161-168: one POST inside try/except; the result is whether the
\* status was 200, and False after any exception
notify_evaluation(outcome) == [raised |-> FALSE, ok |-> outcome = "200"]

\* lines 227-237: the notifier is called once and its result is dropped;
\* hist.notify keeps how the POST of the round ended
Notify(h) ==
    /\ pc[h] = "notify"
    /\ Log(h, "notify")
    /\ \E outcome \in {"200", "other status", "exception"} :
        /\ hist' = [hist EXCEPT ![h].notify = outcome]
        /\ IF notify_evaluation(outcome).raised
           THEN /\ pc' = [pc EXCEPT ![h] = "done"]
                /\ response' = [response EXCEPT ![h] =
                                    ErrorResponse(loc[h].results, 500, "Internal Server Error")]
                /\ UNCHANGED loc
           ELSE NextRound(h, loc[h])
    /\ UNCHANGED <<task_repos, remote, now, running, data, round1Done, lastOk, nreq>>

\* the response is sent and the event loop is free again
Respond(h) ==
    /\ pc[h] = "done"
    /\ running = h
    /\ running' = NoHandler
    /\ pc' = [pc EXCEPT ![h] = "idle"]
    /\ data' = [data EXCEPT ![h] = NoData]
    /\ loc' = [loc EXCEPT ![h] = NoLoc]
    /\ response' = [response EXCEPT ![h] = NoResponse]
    /\ calls' = [calls EXCEPT ![h] = <<>>]
    /\ hist' = [hist EXCEPT ![h] = NoHist]
    /\ UNCHANGED <<task_repos, remote, now, round1Done, lastOk, nreq>>

\* ------------------------------------------------ create_or_update_repo
RepoCall(h, op) ==
    calls' = [calls EXCEPT ![h] = Append(@, [op |-> op, rn |-> loc[h].round_num])]

\* round 1 with the record written as soon as the repository exists, before
\* its files are
CreateRepoRecordsFirst(h) ==
    /\ pc[h] = "rec"
    /\ loc[h].round_num = 1
    /\ RepoCall(h, "create_repo")
    /\ \E ts \in ClockReadings, api_ok \in BOOLEAN :
        LET repo_name == safe_repo_name(loc[h].task, ts)
        IN  /\ now' = ts
            /\ IF api_ok /\ repo_name \notin DOMAIN remote
               THEN /\ remote' = Overlay(remote,
                                [n \in {repo_name} |-> [files |-> EmptyMap, commits |-> 0]])
                    /\ loc' = [loc EXCEPT ![h].repo = repo_name,
                                          ![h].todo = DOMAIN loc[h].code_files]
                    /\ pc' = [pc EXCEPT ![h] =
                                IF DOMAIN loc[h].code_files = {} THEN "readme" ELSE "write"]
                    /\ task_repos' = Overlay(task_repos,
                            [k \in {<<loc[h].email, loc[h].task>>} |->
                                [repo_url |-> HtmlUrl(repo_name),
                                 commit_sha |-> <<"unknown">>,
                                 pages_url |-> PagesUrl(repo_name),
                                 timestamp |-> ts,
                                 files |-> loc[h].code_files]])
                    /\ UNCHANGED <<round1Done, lastOk, hist>>
               ELSE /\ Raise(h, 500, "GithubException")
                    /\ UNCHANGED remote
    /\ UNCHANGED <<running, data, response, nreq>>

\* lines 109-112: round 1 creates a repository named after the task and the
\* clock; the host refuses a name that is taken
CreateRepo(h) ==
    /\ pc[h] = "rec"
    /\ loc[h].round_num = 1
    /\ RepoCall(h, "create_repo")
    /\ \E ts \in ClockReadings, api_ok \in BOOLEAN :
        LET repo_name == safe_repo_name(loc[h].task, ts)
        IN  /\ now' = ts
            /\ IF api_ok /\ repo_name \notin DOMAIN remote
               THEN /\ remote' = Overlay(remote,
                                [n \in {repo_name} |-> [files |-> EmptyMap, commits |-> 0]])
                    /\ loc' = [loc EXCEPT ![h].repo = repo_name,
                                          ![h].todo = DOMAIN loc[h].code_files]
                    /\ pc' = [pc EXCEPT ![h] =
                                IF DOMAIN loc[h].code_files = {} THEN "readme" ELSE "write"]
                    /\ UNCHANGED <<task_repos, round1Done, lastOk, hist>>
               ELSE /\ Raise(h, 500, "GithubException")
                    /\ UNCHANGED remote
    /\ UNCHANGED <<running, data, response, nreq>>

\* a baseline that forgets the stored File Set
EmptyBaseline(prev) == EmptyMap

\* line 124: prev.get("files", {}).copy()
Baseline(prev) == prev.files

\* lines 118-124: later rounds need the identity's record and its repository
LookupPrev(h) ==
    /\ pc[h] = "rec"
    /\ loc[h].round_num # 1
    /\ IF Key(h) \notin DOMAIN task_repos
       THEN /\ Raise(h, 404, "Round 1 repo not found")
            /\ UNCHANGED calls
       ELSE /\ RepoCall(h, "get_repo")
            /\ LET prev == task_repos[Key(h)]
                   repo_name == RepoNameOfUrl(prev.repo_url)
               IN  \E api_ok \in BOOLEAN :
                    IF api_ok /\ repo_name \in DOMAIN remote
                    THEN /\ loc' = [loc EXCEPT ![h].repo = repo_name,
                                               ![h].stored_files = Baseline(prev),
                                               ![h].todo = DOMAIN loc[h].code_files]
                         /\ pc' = [pc EXCEPT ![h] =
                                IF DOMAIN loc[h].code_files = {} THEN "pages" ELSE "write"]
                         /\ UNCHANGED <<task_repos, round1Done, lastOk, hist>>
                    ELSE Raise(h, 500, "GithubException")
    /\ UNCHANGED <<remote, now, running, data, response, nreq>>

\* the content is added to what is stored at the path instead of replacing it
AppendFile(stored_files, p, c) ==
    Overlay(stored_files, [q \in {p} |-> Get(stored_files, p, <<>>) \o c])

\* line 133: stored_files[path] = content
StoreFile(stored_files, p, c) == Overlay(stored_files, [q \in {p} |-> c])

\* a write that makes a commit without the content
WrittenEmpty(r, p, c) ==
    [remote EXCEPT ![r] = [files |-> Overlay(@.files, [q \in {p} |-> <<>>]),
                           commits |-> @.commits + 1]]

\* the host after path p of repository r is written with content c
Written(r, p, c) ==
    [remote EXCEPT ![r] = [files |-> Overlay(@.files, [q \in {p} |-> c]),
                           commits |-> @.commits + 1]]

\* lines 113-114 (create_file) and 125-133 (get_contents, then update_file,
\* or create_file when either raised): one path of code_files is written
WriteFile(h) ==
    /\ pc[h] = "write"
    /\ RepoCall(h, "write_file")
    /\ \E p \in loc[h].todo, get_ok \in BOOLEAN, write_ok \in BOOLEAN :
        LET l == loc[h]
            present == p \in DOMAIN remote[l.repo].files
            done ==
                IF l.round_num = 1 THEN write_ok /\ ~present
                ELSE IF get_ok /\ present THEN write_ok
                ELSE write_ok /\ ~present
            todo == l.todo \ {p}
        IN  IF done
            THEN /\ remote' = Written(l.repo, p, l.code_files[p])
                 /\ loc' = [loc EXCEPT ![h].todo = todo,
                                       ![h].stored_files =
                                           IF l.round_num = 1 THEN @
                                           ELSE StoreFile(@, p, l.code_files[p])]
                 /\ pc' = [pc EXCEPT ![h] =
                                IF todo # {} THEN "write"
                                ELSE IF l.round_num = 1 THEN "readme" ELSE "pages"]
                 /\ UNCHANGED <<task_repos, round1Done, lastOk, hist>>
            ELSE /\ Raise(h, 500, "GithubException")
                 /\ UNCHANGED remote
    /\ UNCHANGED <<now, running, data, response, nreq>>

\* round 1 storing its File Set on top of the identity's earlier record
MergedWithRecord(h) ==
    Overlay(Get(task_repos, <<loc[h].email, loc[h].task>>, [files |-> EmptyMap]).files,
            loc[h].code_files)

\* line 116: stored_files = code_files.copy()
CopyOfCodeFiles(h) == loc[h].code_files

\* lines 115-116: the README is created, and code_files becomes the baseline
WriteReadme(h) ==
    /\ pc[h] = "readme"
    /\ RepoCall(h, "write_file")
    /\ \E api_ok \in BOOLEAN :
        IF api_ok /\ ReadmeMd \notin DOMAIN remote[loc[h].repo].files
        THEN /\ remote' = Written(loc[h].repo, ReadmeMd, <<Text("# task")>>)
             /\ loc' = [loc EXCEPT ![h].stored_files = CopyOfCodeFiles(h)]
             /\ pc' = [pc EXCEPT ![h] = "pages"]
             /\ UNCHANGED <<task_repos, round1Done, lastOk, hist>>
        ELSE /\ Raise(h, 500, "GithubException")
             /\ UNCHANGED remote
    /\ UNCHANGED <<now, running, data, response, nreq>>

\* the hosting request made outside any try: a network error leaves the
\* reconciler
PagesRequestUnguarded(outcome) ==
    [raised |-> outcome = "exception", enabled |-> outcome = "201"]

\* lines 139-146: the POST to the Pages endpoint inside try/except; a status
\* other than 201 or 204 and an exception are only printed
PagesRequest(outcome) == [raised |-> FALSE, enabled |-> outcome = "201"]

\* lines 135-146: the hosting request; no outcome of it changes the flow;
\* loc.pages keeps how the request ended until the reconciler has returned
EnablePages(h) ==
    /\ pc[h] = "pages"
    /\ RepoCall(h, "pages")
    /\ \E outcome \in {"201", "other status", "exception"} :
        IF PagesRequest(outcome).raised
        THEN Raise(h, 500, "RequestException")
        ELSE /\ loc' = [loc EXCEPT ![h].pages = outcome]
             /\ pc' = [pc EXCEPT ![h] = "commits"]
             /\ UNCHANGED <<task_repos, round1Done, lastOk, hist>>
    /\ UNCHANGED <<remote, now, running, data, response, nreq>>

\* the record's address built anew from the task and the clock instead of
\* taken from the repository written to
NewRecordRenamed(h, commit_sha, ts) ==
    [repo_url |-> HtmlUrl(safe_repo_name(loc[h].task, ts)),
     commit_sha |-> commit_sha,
     pages_url |-> PagesUrl(loc[h].repo),
     timestamp |-> ts,
     files |-> loc[h].stored_files]

\* lines 151-157: the record written for the identity at clock value ts
NewRecord(h, commit_sha, ts) ==
    [repo_url |-> HtmlUrl(loc[h].repo),
     commit_sha |-> commit_sha,
     pages_url |-> PagesUrl(loc[h].repo),
     timestamp |-> ts,
     files |-> loc[h].stored_files]

\* lines 148-158: the latest commit is fetched (an error here is not caught),
\* the record is written and the call returns
FetchCommitAndStore(h) ==
    /\ pc[h] = "commits"
    /\ RepoCall(h, "get_commits")
    /\ \E ts \in ClockReadings, api_ok \in BOOLEAN :
        IF api_ok
        THEN LET commit_sha == IF remote[loc[h].repo].commits > 0
                               THEN <<"sha", loc[h].repo, remote[loc[h].repo].commits>>
                               ELSE <<"unknown">>
                 rec == NewRecord(h, commit_sha, ts)
             IN  /\ now' = ts
                 /\ task_repos' = Overlay(task_repos, [k \in {Key(h)} |-> rec])
                 /\ loc' = [loc EXCEPT ![h].ret = [repo_url |-> rec.repo_url,
                                                   pages_url |-> rec.pages_url,
                                                   commit_sha |-> commit_sha]]
                 /\ pc' = [pc EXCEPT ![h] = "reconciled"]
                 /\ round1Done' = IF loc[h].round_num = 1
                                  THEN round1Done \cup {Key(h)} ELSE round1Done
                 /\ lastOk' = IF data[h] # NoData THEN lastOk
                              ELSE Overlay(lastOk,
                                [k \in {Key(h)} |-> [round_num |-> loc[h].round_num,
                                                     code_files |-> loc[h].code_files,
                                                     files |-> rec.files]])
                 /\ hist' = [hist EXCEPT
                                ![h].preFiles =
                                    IF Key(h) \in DOMAIN task_repos
                                    THEN [has |-> TRUE, files |-> task_repos[Key(h)].files,
                                          repo_url |-> task_repos[Key(h)].repo_url]
                                    ELSE NoSnapshot,
                                ![h].prevOk = Get(lastOk, Key(h), NoCall),
                                ![h].afterFiles = Append(@, rec.files)]
        ELSE /\ Raise(h, 500, "GithubException")
             /\ UNCHANGED now
    /\ UNCHANGED <<remote, running, data, response, nreq>>

Reconcile(h) ==
    \/ CreateRepo(h)
    \/ LookupPrev(h)
    \/ WriteFile(h)
    \/ WriteReadme(h)
    \/ EnablePages(h)
    \/ FetchCommitAndStore(h)

Next ==
    \E h \in Handlers :
        \/ Accept(h)
        \/ Start(h)
        \/ Generate(h)
        \/ Reconcile(h)
        \/ CatchReconcile(h)
        \/ AfterReconcile(h)
        \/ Notify(h)
        \/ Respond(h)

Spec == Init /\ [][Next]_vars

\* ------------------------------------------- the reconciler called alone
\* create_or_update_repo(email, task, round_num, code_files) called directly,
\* as a unit test of the reconciler does, with arguments from small sets
MaxCalls == 3
CallEmails == {"a@x.com"}
CallTasks == {Task1, <<"t", ".", "2">>}
CallRounds == {1, 2}
CallFileSets ==
    {[p \in {IndexHtml} |-> <<Text("page v1")>>],
     [p \in {IndexHtml, AppJs} |-> <<Text("page v2")>>]}

DirectCall(h) ==
    /\ pc[h] = "idle"
    /\ FirstSlot(h)
    /\ running = NoHandler
    /\ nreq < MaxCalls
    /\ nreq' = nreq + 1
    /\ running' = h
    /\ \E e \in CallEmails, t \in CallTasks, n \in CallRounds, f \in CallFileSets :
        loc' = [loc EXCEPT ![h] =
                    [NoLoc EXCEPT !.email = e, !.task = t, !.round_num = n, !.code_files = f]]
    /\ pc' = [pc EXCEPT ![h] = "rec"]
    /\ UNCHANGED <<task_repos, remote, now, data, response, calls, hist, round1Done, lastOk>>

\* the call returns (line 158) or raises
DirectReturn(h) ==
    /\ pc[h] \in {"reconciled", "rec_raised"}
    /\ data[h] = NoData
    /\ running' = NoHandler
    /\ pc' = [pc EXCEPT ![h] = "idle"]
    /\ loc' = [loc EXCEPT ![h] = NoLoc]
    /\ calls' = [calls EXCEPT ![h] = <<>>]
    /\ hist' = [hist EXCEPT ![h] = NoHist]
    /\ UNCHANGED <<task_repos, remote, now, data, response, round1Done, lastOk, nreq>>

NextRec ==
    \E h \in Handlers :
        \/ DirectCall(h)
        \/ Reconcile(h)
        \/ DirectReturn(h)

SpecRec == Init /\ [][NextRec]_vars

\* --------------------------------------------- the generator's parse alone
\* the parsing part of call_llm_generate_code (lines 69-95) applied to a model
\* response of at most MaxLines lines, without attachments
MaxLines == 3
ParseLines ==
    {Text("<!DOCTYPE html>"), Text("body"), Blank,
     Line(FALSE, IndexHtml), Line(FALSE, AppJs), Line(TRUE, IndexHtml)}
ParseInputs == UNION {[1..n -> ParseLines] : n \in 0..MaxLines}

InitParse ==
    /\ task_repos = EmptyMap
    /\ remote = EmptyMap
    /\ now = 0
    /\ running = NoHandler
    /\ pc = [h \in Handlers |-> IF FirstSlot(h) THEN "parse" ELSE "idle"]
    /\ data = [h \in Handlers |-> NoData]
    /\ loc = [h \in Handlers |-> NoLoc]
    /\ response = [h \in Handlers |-> NoResponse]
    /\ calls = [h \in Handlers |-> <<>>]
    /\ \E content \in ParseInputs :
        hist = [h \in Handlers |->
                    IF FirstSlot(h) THEN [NoHist EXCEPT !.content = content] ELSE NoHist]
    /\ round1Done = {}
    /\ lastOk = EmptyMap
    /\ nreq = 0

ParseCall(h) ==
    /\ pc[h] = "parse"
    /\ pc' = [pc EXCEPT ![h] = "parsed"]
    /\ loc' = [loc EXCEPT ![h].code_files = GenerateFiles(hist[h].content, EmptyMap)]
    /\ UNCHANGED <<task_repos, remote, now, running, data, response, calls, hist,
                   round1Done, lastOk, nreq>>

NextParse == \E h \in Handlers : ParseCall(h)

SpecParse == InitParse /\ [][NextParse]_vars

\* ------------------------------------------------------------- properties
Active(h) == pc[h] \notin {"idle", "await_json"}
FromRequest(h) == data[h] # NoData
Stored(h) == task_repos[Key(h)]
OpsOf(h) == {calls[h][k].op : k \in 1..Len(calls[h])}
CountOps(h, op) == Cardinality({k \in 1..Len(calls[h]) : calls[h][k].op = op})

\* C1: a Repository Record exists for an identity if and only if a reconcile
\* with round_num = 1 has completed for it; so a round 1 that fails after the
\* repository was created leaves no record for an identity without one.
C1_RecordIffRound1Completed == DOMAIN task_repos = round1Done

\* C1 witness: a round 1 failed part-way (its repository exists on the host)
\* and its identity has no record, while another identity has one.
C1_Witness ==
    \E h \in Handlers :
        /\ pc[h] = "rec_raised"
        /\ loc[h].round_num = 1
        /\ loc[h].repo \in DOMAIN remote
        /\ Key(h) \notin DOMAIN task_repos
        /\ task_repos # EmptyMap

\* C2: a request carrying round: 2 for an identity that already has a record
\* is processed as round 2 of the existing repository: its result entry is
\* numbered 2, carries the recorded address, and no repository is created.
C2_Round2RequestReusesRepository ==
    \A h \in Handlers :
        (/\ pc[h] = "done"
         /\ response[h].status = 200
         /\ data[h].round = 2
         /\ data[h].round2 = <<>>
         /\ Key(h) \in DOMAIN hist[h].startRepos)
        => /\ response[h].results[1].round = 2
           /\ response[h].results[1].repo_url = hist[h].startRepos[Key(h)].repo_url
           /\ "create_repo" \notin OpsOf(h)

\* C3: a request for round >= 2 whose identity has no record fails with a
\* not-found status, writes nothing to the repository host and leaves
\* task_repos as it was (stated for the runs in which neither the generator
\* nor a call to the host failed).
C3_Round2WithoutRecordIsNotFound ==
    \A h \in Handlers :
        (/\ pc[h] = "done"
         /\ data[h].secret = SECRET_KEY
         /\ data[h].round >= 2
         /\ Key(h) \notin DOMAIN hist[h].startRepos
         /\ response[h].detail # "LLM generation failed"
         /\ loc[h].exc.detail # "GithubException")
        => /\ response[h].status = 404
           /\ remote = hist[h].startRemote
           /\ task_repos = hist[h].startRepos

\* C4: a request with a wrong secret is rejected at once: no generator,
\* repository or notifier call is made for it and task_repos and the
\* repository host are as they were when it arrived.
C4_WrongSecretNoSideEffect ==
    \A h \in Handlers :
        (Active(h) /\ FromRequest(h) /\ data[h].secret # SECRET_KEY)
        => /\ pc[h] = "done"
           /\ response[h].status = 403
           /\ calls[h] = <<>>
           /\ task_repos = hist[h].startRepos
           /\ remote = hist[h].startRemote

\* C4 witness: a rejected request that carried attachments, further rounds and
\* a callback URL, arriving when its identity already has a record.
C4_Witness ==
    \E h \in Handlers :
        /\ pc[h] = "done"
        /\ response[h].status = 403
        /\ data[h].attachments # EmptyMap
        /\ data[h].round2 # <<>>
        /\ data[h].evaluation_url # None
        /\ <<data[h].email, data[h].task>> \in DOMAIN task_repos

\* C5: the existing-files argument of the generator call of round n+1 is the
\* File Set the record held right after round n's reconcile stored it.
C5_NextRoundSeesStoredFiles ==
    \A h \in Handlers :
        \A n \in 2..Len(hist[h].genArgs) :
            /\ n - 1 <= Len(hist[h].afterFiles)
            /\ hist[h].genArgs[n] = hist[h].afterFiles[n - 1]

\* C5 witness: round 2's generator was called with a File Set that differs
\* from the one read before round 1.
C5_Witness ==
    \E h \in Handlers :
        /\ Len(hist[h].genArgs) >= 2
        /\ hist[h].genArgs[2] # hist[h].genArgs[1]
        /\ hist[h].genArgs[1] # EmptyMap

\* C6: when a round fails, no call is made for a later round and the response
\* is an error without any per-round result.
C6_FailureStopsWithoutPartialResults ==
    \A h \in Handlers :
        (pc[h] = "done" /\ response[h].status = 500)
        => /\ response[h].results = <<>>
           /\ CountOps(h, "generate") = Len(loc[h].results) + 1
           /\ \A k \in 1..Len(calls[h]) : calls[h][k].rn <= Len(loc[h].results) + 1

\* C6 witness: round 1 completed, round 2 failed, and the error response
\* carries nothing of round 1.
C6_Witness ==
    \E h \in Handlers :
        /\ pc[h] = "done"
        /\ response[h].status = 500
        /\ Len(loc[h].results) = 1
        /\ loc[h].rounds = 2

\* every repository and path of host state old is still in the host, with its
\* old content or the content the handler's current round wrote
RemoteKept(h, old) ==
    \A r \in DOMAIN old :
        /\ r \in DOMAIN remote
        /\ \A p \in DOMAIN old[r].files :
            /\ p \in DOMAIN remote[r].files
            /\ \/ remote[r].files[p] = old[r].files[p]
               \/ /\ p \in DOMAIN loc[h].code_files
                  /\ remote[r].files[p] = loc[h].code_files[p]

\* C7: no rollback: when a round fails, task_repos is what the last completed
\* round (or the state at arrival) left, and what earlier rounds wrote to the
\* host is still there.
C7_FailedRoundLeavesRecord ==
    \A h \in Handlers :
        (pc[h] = "done" /\ response[h].status = 500)
        => /\ task_repos = hist[h].goodRepos
           /\ RemoteKept(h, hist[h].goodRemote)

\* C7 witness: round 2 failed after writing part of its files; round 1's
\* record is in place.
C7_Witness ==
    \E h \in Handlers :
        /\ pc[h] = "done"
        /\ response[h].status = 500
        /\ Len(loc[h].results) = 1
        /\ remote # hist[h].goodRemote
        /\ Key(h) \in DOMAIN task_repos
        /\ Stored(h).repo_url = loc[h].results[1].repo_url

\* C8: a completed reconcile of round >= 2 with File Set F against stored
\* File Set S stores S overlaid with F: F's content at F's paths, S's content
\* at the other paths of S, and no other path.
C8_MergeOverlaysBaseline ==
    \A h \in Handlers :
        (pc[h] = "reconciled" /\ loc[h].round_num >= 2)
        => /\ hist[h].preFiles.has
           /\ LET S == hist[h].preFiles.files
                  F == loc[h].code_files
                  new == Stored(h).files
              IN  /\ DOMAIN new = (DOMAIN S) \cup (DOMAIN F)
                  /\ \A p \in DOMAIN F : new[p] = F[p]
                  /\ \A p \in (DOMAIN S) \ (DOMAIN F) : new[p] = S[p]

\* C8 witness: F replaced the content of one stored path and left another
\* stored path alone.
C8_Witness ==
    \E h \in Handlers :
        /\ pc[h] = "reconciled"
        /\ loc[h].round_num >= 2
        /\ \E p \in DOMAIN loc[h].code_files :
            /\ p \in DOMAIN hist[h].preFiles.files
            /\ hist[h].preFiles.files[p] # loc[h].code_files[p]
        /\ (DOMAIN hist[h].preFiles.files) \ (DOMAIN loc[h].code_files) # {}

\* C9: a reconcile that repeats the round and the File Set of the identity's
\* previous completed reconcile leaves the stored File Set that one left.
C9_ReconcileTwiceSameFiles ==
    \A h \in Handlers :
        (/\ pc[h] = "reconciled"
         /\ hist[h].prevOk # NoCall
         /\ hist[h].prevOk.round_num = loc[h].round_num
         /\ hist[h].prevOk.code_files = loc[h].code_files)
        => Stored(h).files = hist[h].prevOk.files

\* C9 witness: a round-2 reconcile of a non-empty File Set was repeated
\* against a baseline holding another path as well.
C9_Witness ==
    \E h \in Handlers :
        /\ pc[h] = "reconciled"
        /\ loc[h].round_num = 2
        /\ hist[h].prevOk.round_num = 2
        /\ hist[h].prevOk.code_files = loc[h].code_files
        /\ loc[h].code_files # EmptyMap
        /\ DOMAIN Stored(h).files # DOMAIN loc[h].code_files

\* C10: once a round of a request has completed, the stored File Set maps
\* every attachment path of the request to the attachment's content.
C10_AttachmentsWin ==
    \A h \in Handlers :
        (FromRequest(h) /\ Len(hist[h].afterFiles) >= 1)
        => \A p \in DOMAIN data[h].attachments :
            /\ p \in DOMAIN Stored(h).files
            /\ Stored(h).files[p] = data[h].attachments[p]

\* C10 witness: round 2 completed with the generator having produced other
\* content at the attachment's path, which round 1 had stored already.
C10_Witness ==
    \E h \in Handlers :
        /\ pc[h] = "reconciled"
        /\ loc[h].round_num = 2
        /\ \E p \in DOMAIN data[h].attachments :
            /\ p \in DOMAIN hist[h].parsed
            /\ hist[h].parsed[p] # data[h].attachments[p]
            /\ p \in DOMAIN hist[h].preFiles.files

\* a handler between its read of the stored File Set (lines 198, 219, 118) and
\* its write of the record (line 151)
MidRound(h) == pc[h] \in {"gen", "rec", "write", "readme", "pages", "commits"}

\* C11 (as the spec states it): there is no mutual exclusion, so while one
\* request is between its read of the stored File Set and its write of the
\* record, a simultaneous request whose body has arrived can run as well.
C11_SimultaneousRequestsInterleave ==
    \A h \in Handlers, g \in Handlers :
        (MidRound(h) /\ pc[g] = "await_json") => ENABLED Start(g)

\* C11 (amended): simultaneous requests are processed one after the other:
\* while a handler is active no other handler is, and from its read of the
\* stored File Set to its write of the record task_repos is what its last
\* completed round (or the state at arrival) left, so the File Set it read is
\* the one the record holds.
C11_HandlersSerialised ==
    \A h \in Handlers :
        (Active(h) /\ FromRequest(h))
        => /\ running = h
           /\ \A g \in Handlers \ {h} : ~Active(g)
           /\ MidRound(h)
              => /\ task_repos = hist[h].goodRepos
                 /\ loc[h].existing_files = Get(task_repos, Key(h), [files |-> EmptyMap]).files

\* C11 witness: of two requests in flight together, the one served second
\* (a round: 2 request for the same identity) has stored its File Set, and a
\* path the first had stored is gone from the record: lost without any
\* interleaving, by the second's round 1.
C11_Witness ==
    /\ pc["h2"] = "reconciled"
    /\ data["h2"].round = 2
    /\ Key("h2") \in DOMAIN hist["h2"].startRepos
    /\ (DOMAIN hist["h2"].startRepos[Key("h2")].files) \ (DOMAIN Stored("h2").files) # {}

\* C12: a notification failure is never fatal. Right after the callback POST
\* of a round, whether it returned 200, returned another status or raised,
\* the record is the one the round stored, the results are those of the rounds
\* made so far, and the request either goes on with the next round or answers
\* 200 with all its results; and no round is notified twice.
C12_NotificationNeverFatal ==
    \A h \in Handlers :
        /\ \A j \in 1..Len(calls[h]), k \in 1..Len(calls[h]) :
            (j # k /\ calls[h][j].op = "notify" /\ calls[h][k].op = "notify")
            => calls[h][j].rn # calls[h][k].rn
        /\ hist[h].notify # None
           => /\ task_repos = hist[h].goodRepos
              /\ Last(calls[h]) = [op |-> "notify", rn |-> Len(loc[h].results)]
              /\ IF Len(loc[h].results) < loc[h].rounds
                 THEN pc[h] = "gen" /\ loc[h].i = Len(loc[h].results)
                 ELSE pc[h] = "done" /\ response[h] = OkResponse(loc[h].results)

\* C12 witness: the callback of round 1 was made, the callback of round 2
\* raised, and the request answers 200 with both results.
C12_Witness ==
    \E h \in Handlers :
        /\ hist[h].notify = "exception"
        /\ pc[h] = "done"
        /\ response[h].status = 200
        /\ Len(response[h].results) = 2
        /\ CountOps(h, "notify") = 2

\* C13: when fetching the latest commit raises, the round still succeeds: the
\* reconcile returns, the record is written and both the record and the
\* returned result carry the commit identifier "unknown".
C13_CommitFailureGivesUnknown ==
    \A h \in Handlers :
        (/\ calls[h] # <<>>
         /\ Last(calls[h]).op = "get_commits"
         /\ loc[h].exc # NoExc)
        => /\ pc[h] = "reconciled"
           /\ Key(h) \in DOMAIN task_repos
           /\ Stored(h).commit_sha = <<"unknown">>
           /\ loc[h].ret.commit_sha = <<"unknown">>

\* the entries of the handler's call log for operation op in round rn
RoundOps(h, op, rn) ==
    {k \in 1..Len(calls[h]) : calls[h][k].op = op /\ calls[h][k].rn = rn}

\* C14: the hosting request never fails a round and is made only after all
\* the round's files were written: no reconcile is left by an exception from
\* the hosting step; when it was made, every path of the round's File Set
\* (and in round 1 the README) is on the host with the round's content, one
\* write per path, none after it; and the reconcile that returns has stored
\* and returned the hosting URL built from the account and repository name,
\* whatever the hosting request's outcome.
C14_HostingFailureNeverFatal ==
    \A h \in Handlers :
        /\ (pc[h] = "rec_raised" /\ calls[h] # <<>>) => Last(calls[h]).op # "pages"
        /\ loc[h].pages # None
           => LET l == loc[h]
                  writes == RoundOps(h, "write_file", l.round_num)
                  pages == RoundOps(h, "pages", l.round_num)
              IN  /\ l.todo = {}
                  /\ \A p \in DOMAIN l.code_files :
                        /\ p \in DOMAIN remote[l.repo].files
                        /\ remote[l.repo].files[p] = l.code_files[p]
                  /\ l.round_num = 1 => ReadmeMd \in DOMAIN remote[l.repo].files
                  /\ Cardinality(writes) =
                        Cardinality(DOMAIN l.code_files) + (IF l.round_num = 1 THEN 1 ELSE 0)
                  /\ Cardinality(pages) = 1
                  /\ \A w \in writes, g \in pages : w < g
                  /\ pc[h] = "reconciled"
                     => /\ Stored(h).pages_url = PagesUrl(l.repo)
                        /\ l.ret.pages_url = PagesUrl(l.repo)

\* C14 witness: the hosting request of a round 2 that wrote two files raised,
\* and the reconcile returned with the record written.
C14_Witness ==
    \E h \in Handlers :
        /\ pc[h] = "reconciled"
        /\ loc[h].pages = "exception"
        /\ loc[h].round_num = 2
        /\ Cardinality(DOMAIN loc[h].code_files) = 2
        /\ Stored(h).pages_url = PagesUrl(loc[h].repo)

\* the place of a logged call within its round: generator, reconciler, notifier
Phase(op) == IF op = "generate" THEN 1 ELSE IF op = "notify" THEN 3 ELSE 2

\* C15: the calls of a request are made round by round, and within a round
\* the generator first, then the reconciler, then the notifier: a round is
\* generated once, notified at most once and only after its record was
\* written, never notified when the request has no callback URL; a request
\* whose k rounds all succeed answers with k results numbered 1..k and has
\* made one generator call, one completed reconcile and (with a callback
\* URL) one notification per round.
C15_CallsInRoundOrder ==
    \A h \in Handlers :
        FromRequest(h)
        => /\ \A j \in 1..Len(calls[h]), k \in 1..Len(calls[h]) :
                j < k => \/ calls[h][j].rn < calls[h][k].rn
                         \/ /\ calls[h][j].rn = calls[h][k].rn
                            /\ Phase(calls[h][j].op) <= Phase(calls[h][k].op)
           /\ \A k \in 1..Len(calls[h]) :
                /\ calls[h][k].rn \in 1..loc[h].rounds
                /\ calls[h][k].op = "generate"
                   => RoundOps(h, "generate", calls[h][k].rn) = {k}
                /\ calls[h][k].op = "notify"
                   => /\ RoundOps(h, "notify", calls[h][k].rn) = {k}
                      /\ RoundOps(h, "get_commits", calls[h][k].rn) # {}
                      /\ calls[h][k].rn <= Len(hist[h].afterFiles)
                      /\ data[h].evaluation_url # None
           /\ (pc[h] = "done" /\ response[h].status = 200)
              => /\ Len(response[h].results) = loc[h].rounds
                 /\ \A n \in 1..loc[h].rounds :
                        /\ response[h].results[n].round = n
                        /\ Cardinality(RoundOps(h, "generate", n)) = 1
                        /\ Cardinality(RoundOps(h, "get_commits", n)) = 1
                        /\ Cardinality(RoundOps(h, "notify", n)) =
                                IF data[h].evaluation_url # None THEN 1 ELSE 0

\* C15 witness: a request of two rounds with a callback URL has answered; the
\* log starts with the generator of round 1 and ends with the notifier of
\* round 2, and the generator of round 2 comes right after the notifier of
\* round 1.
C15_Witness ==
    \E h \in Handlers :
        /\ pc[h] = "done"
        /\ response[h].status = 200
        /\ loc[h].rounds = 2
        /\ calls[h][1] = [op |-> "generate", rn |-> 1]
        /\ Last(calls[h]) = [op |-> "notify", rn |-> 2]
        /\ \E k \in 1..(Len(calls[h]) - 1) :
            /\ calls[h][k] = [op |-> "notify", rn |-> 1]
            /\ calls[h][k + 1] = [op |-> "generate", rn |-> 2]

\* C16: a reconcile of round >= 2 leaves the record's repository address as
\* it was before the round and returns that address, and in a request every
\* result entry of round >= 2 carries the address of the round-1 entry.
C16_LaterRoundsKeepAddress ==
    \A h \in Handlers :
        /\ (pc[h] = "reconciled" /\ loc[h].round_num >= 2)
           => /\ hist[h].preFiles.has
              /\ Stored(h).repo_url = hist[h].preFiles.repo_url
              /\ loc[h].ret.repo_url = hist[h].preFiles.repo_url
        /\ \A n \in 2..Len(loc[h].results) :
            loc[h].results[n].repo_url = loc[h].results[1].repo_url
        /\ \A n \in 2..Len(response[h].results) :
            response[h].results[n].repo_url = response[h].results[1].repo_url

\* C16 witness: a request of two rounds has answered 200; round 2 stored its
\* record at a later clock value than the one in the repository's name.
C16_Witness ==
    \E h \in Handlers :
        /\ pc[h] = "done"
        /\ response[h].status = 200
        /\ Len(response[h].results) = 2
        /\ Stored(h).timestamp # RepoNameOfUrl(Stored(h).repo_url)[2]
        /\ Stored(h).repo_url = response[h].results[2].repo_url

\* C17: when a round has completed, every path of the stored File Set of the
\* identity's record is in the repository the record points to, with the
\* stored content.
C17_StoredFilesOnHost ==
    \A h \in Handlers :
        pc[h] = "reconciled"
        => LET rec == Stored(h)
               r == RepoNameOfUrl(rec.repo_url)
           IN  /\ r \in DOMAIN remote
               /\ \A p \in DOMAIN rec.files :
                    /\ p \in DOMAIN remote[r].files
                    /\ remote[r].files[p] = rec.files[p]

\* C17 witness: round 2 of a request has completed; the stored File Set holds
\* a path round 2 did not write and a path it added, and the repository holds
\* a path the File Set does not.
C17_Witness ==
    \E h \in Handlers :
        /\ pc[h] = "reconciled"
        /\ FromRequest(h)
        /\ loc[h].round_num = 2
        /\ (DOMAIN Stored(h).files) \ (DOMAIN loc[h].code_files) # {}
        /\ (DOMAIN loc[h].code_files) \ (DOMAIN hist[h].preFiles.files) # {}
        /\ (DOMAIN remote[loc[h].repo].files) \ (DOMAIN Stored(h).files) # {}

\* C18: a completed round-1 reconcile for an identity that had a record
\* replaces it: the record points to the repository this reconcile created,
\* which is not the one of the earlier record, and its stored File Set is
\* the File Set passed to the reconcile, so no other path of the earlier
\* record is left.
C18_Round1ReplacesRecord ==
    \A h \in Handlers :
        (pc[h] = "reconciled" /\ loc[h].round_num = 1 /\ hist[h].preFiles.has)
        => /\ Stored(h).files = loc[h].code_files
           /\ Stored(h).repo_url = HtmlUrl(loc[h].repo)
           /\ Stored(h).repo_url # hist[h].preFiles.repo_url
           /\ FromRequest(h) => loc[h].repo \notin DOMAIN hist[h].startRemote
           /\ \A p \in (DOMAIN hist[h].preFiles.files) \ (DOMAIN loc[h].code_files) :
                p \notin DOMAIN Stored(h).files

\* C18 witness: the earlier record held two paths, the round 1 of a later
\* request was given one path, and the other is gone from the record.
C18_Witness ==
    \E h \in Handlers :
        /\ pc[h] = "reconciled"
        /\ FromRequest(h)
        /\ loc[h].round_num = 1
        /\ hist[h].preFiles.has
        /\ Cardinality(DOMAIN hist[h].preFiles.files) = 2
        /\ Cardinality(DOMAIN Stored(h).files) = 1

\* a response that already is a full document: it opens with a doctype
LooksLikeDocument(code_text) ==
    /\ code_text # <<>>
    /\ Head(code_text).txt = <<"<!DOCTYPE html>">>

\* the lines of code_text after the last filename line naming p, up to the
\* next filename line
SectionOf(code_text, p) ==
    LET named == {k \in 1..Len(code_text) :
                    IsFilenameLine(code_text[k]) /\ code_text[k].txt = p}
        k == CHOOSE j \in named : \A i \in named : i <= j
        later == {j \in (k + 1)..Len(code_text) : IsFilenameLine(code_text[j])}
        stop == IF later = {} THEN Len(code_text) + 1
                ELSE CHOOSE j \in later : \A i \in later : j <= i
    IN  SubSeq(code_text, k + 1, stop - 1)

\* C19: the parse never returns an empty File Set. When no line of the
\* response is a filename line, the File Set is index.html alone, holding the
\* response as it is when it looks like a full document and the response
\* inside the boilerplate markup otherwise; when some line is, the File Set
\* has one entry per filename, holding the lines up to the next filename
\* line.
C19_ParseResult ==
    \A h \in Handlers :
        pc[h] = "parsed"
        => LET code_text == Strip(hist[h].content)
               files == loc[h].code_files
               names == {code_text[k].txt :
                            k \in {j \in 1..Len(code_text) : IsFilenameLine(code_text[j])}}
           IN  /\ DOMAIN files # {}
               /\ IF names = {}
                  THEN files = [p \in {IndexHtml} |->
                                    IF LooksLikeDocument(code_text) THEN code_text
                                    ELSE Boilerplate(code_text)]
                  ELSE /\ DOMAIN files = names
                       /\ \A p \in names : files[p] = Strip(SectionOf(code_text, p))
====
